---- MODULE Spec2Model ----
(***************************************************************************)
(* Model of nodejs/server.js: the access-log middleware, the query         *)
(* interception middleware (logQueryComplexity) that rebinds the shared    *)
(* pool.query slot, the four route handlers, /metrics, and the startup     *)
(* callback (waitForPostgres and the seeding of users).                    *)
(*                                                                         *)
(* Node runs one task at a time.  A step of the model is one task of the   *)
(* event loop together with the microtasks it triggers: a timer firing, a  *)
(* database call completing, a response finishing.  Everything a handler   *)
(* or a wrapper does between two suspension points is part of one step.    *)
(***************************************************************************)
EXTENDS Integers, Sequences, FiniteSets, TLC

\* ------------------------------------------------------------------ bounds
\* Number of overlapping requests the clients send in one run, and how many
\* of them may ask for /api/orders/generate.
MaxReq == 2
MaxOrders == 1
\* Number of requests sent one after the other in one run.
SeqReq == 2
\* Number of requests sent in a run that starts with the startup callback.
BootReq == 1
\* Number of the generated users the startup callback inserts in the model.
MaxSeed == 1
\* Math.random() is modelled as n / RandDen for n in a set of samples.
RandDen == 1000

\* ------------------------------------------------------- program constants
\* generateOrders(10)
OrdersPerRequest == 10
\* let retries = 10
GateRetries == 10
\* Math.floor(Math.random() * 91) + 10
LatencySpan == 91
LatencyBase == 10
\* faker.datatype.number({ min: 1, max: 50 }), ({ min: 10, max: 1000 })
UserIdMin == 1
UserIdMax == 50
PriceMin == 10
PriceMax == 1000

Boot == 0
Most(a, b) == IF a >= b THEN a ELSE b
NReq == Most(MaxReq, Most(SeqReq, BootReq))
Reqs == 1 .. NReq
Callers == 0 .. NReq
\* A capability in the pool.query slot: 0 is the pool's own query method (or a
\* bound form of it), r > 0 is the wrapper that request r installed.
Original == 0
Caps == 0 .. NReq

Routes == {"users", "orders", "filter", "compute", "metrics"}

\* Samples of Math.random(): both sides of the 0.3 and 0.8 thresholds.
RandSamples == {0, 299, 300, 799, 800, RandDen - 1}
LatencySamples == {0, RandDen - 1}
\* The sample of the generator behind faker that generateOrders starts from.
FakerSamples == {0}

\* A query text: one of the program's statements under x EXPLAIN prefixes.
QUsers == [q |-> "users", x |-> 0]
QInsert == [q |-> "insert", x |-> 0]
QFilter == [q |-> "filter", x |-> 0]
QNow == [q |-> "now", x |-> 0]
QSeed == [q |-> "seed", x |-> 0]
NoText == [q |-> "none", x |-> 0]

\* `EXPLAIN ${text}`
Explain(text) == [text EXCEPT !.x = @ + 1]

VARIABLES
    pc,         \* per caller: where its handling stands
    route,      \* per request: the route it asks for
    hasAge,     \* per request: whether the age query parameter is present
    start,      \* per request: Date.now() read by the access-log middleware
    lat,        \* per request: networkLatency
    slot,       \* the capability stored in pool.query
    cap,        \* per request: originalQuery captured by its wrapper
    stack,      \* per caller: wrapper invocations awaiting a call they made
    pend,       \* per caller: the text of the database call in flight
    trace,      \* per caller: what its latest pool.query call did, in order
    qc,         \* per request: the keys of req.queryComplexity
    est,        \* per request: what its wrapper made of its latest EXPLAIN
    idx,        \* per caller: insertedRows of the running loop
    orders,     \* per request: the array generateOrders(10) gave its handler
    status,     \* per request: res.statusCode
    body,       \* per request: the response body
    access,     \* per request: the access-log records of its response
    errors,     \* app_errors_total
    histCount,  \* observations of http_request_duration_ms
    scrapes,    \* per request: the (errors, histCount) snapshot /metrics gave it
    sinks,      \* per log file: how many records of each kind it holds
    clock,      \* Date.now()
    ordersRows, \* rows of the orders table
    retries,    \* waitForPostgres: retries
    liveness,   \* waitForPostgres: how many times it called pool.query
    seedI,      \* the seeding loop: how many users it has taken
    overlap     \* per request: another request was in flight during it

vars == <<pc, route, hasAge, start, lat, slot, cap, stack, pend, trace, qc, est, idx,
          orders, status, body, access, errors, histCount, scrapes, sinks, clock,
          ordersRows, retries, liveness, seedI, overlap>>

\* ------------------------------------------------------------------ logger
\* winston.createLogger: four File transports, each with its own level.
Files == {"access", "error", "db", "app"}
TransportLevel == [f \in Files |-> IF f = "error" THEN "error" ELSE "info"]

ErrorKinds == {"queryError", "handlerError", "seedError"}
InfoKinds == {"accessLine", "executedQuery", "fetchedUsers", "filteredUsers",
              "savedOrders", "computeStart", "computeDone", "insertedUser"}
Kinds == ErrorKinds \cup InfoKinds

\* logger.error(...) gives level error, logger.info(...) level info.
LevelOf(kind) == IF kind \in ErrorKinds THEN "error" ELSE "info"

\* The `transport` field the call that logs a record of this kind passes in
\* its metadata, as the file it names; "none" when the call passes none.
TransportOf(kind) ==
    CASE kind \in {"executedQuery", "fetchedUsers", "filteredUsers"} -> "db"
      [] kind \in {"savedOrders", "computeStart", "computeDone"} -> "app"
      [] OTHER -> "none"

\* A transport writes a record when the record is at least as severe as the
\* transport's level (error is more severe than info).  The record's own
\* `transport` field is metadata: no transport reads it.
Accepts(f, level) == TransportLevel[f] = "info" \/ level = "error"

\* logger.log: the record goes to every transport that accepts its level.
Emit(sk, kind) ==
    [f \in Files |->
        IF Accepts(f, LevelOf(kind)) THEN [sk[f] EXCEPT ![kind] = @ + 1] ELSE sk[f]]

\* --------------------------------------------------------- the backing store
\* What a call on the pool's own query method can do.  PostgreSQL's EXPLAIN
\* takes a SELECT or INSERT, never another EXPLAIN: a text with two prefixes
\* is a syntax error.  Any other call succeeds or fails.
DbOutcomes(text) == IF text.x >= 2 THEN {"fail"} ELSE {"ok", "fail"}

\* A plain INSERT INTO orders that succeeds adds one row.
RowsAfter(rows, text, res) ==
    IF text = QInsert /\ res = "ok" THEN rows + 1 ELSE rows

\* ------------------------------------------- the cost of a query (92-94)
\* A string is a sequence of characters.  The result of an EXPLAIN is the
\* sequence of its rows, each row being its 'QUERY PLAN' string.
Digits == {"0", "1", "2", "3", "4", "5", "6", "7", "8", "9"}
CostPrefix == <<"c", "o", "s", "t", "=">>
NotAvailable == <<"N", "/", "A">>

\* The length of the longest stretch of str from position p on whose
\* characters are all in the set.
Stretch(str, p, set) ==
    LET ends == {k \in (p - 1) .. Len(str) : \A j \in p .. k : str[j] \in set}
    IN  (CHOOSE k \in ends : \A m \in ends : m <= k) - (p - 1)

\* [\d.]
Class == Digits \cup {"."}

StartsWith(str, i, pre) ==
    /\ i + Len(pre) - 1 <= Len(str)
    /\ \A j \in DOMAIN pre : str[i + j - 1] = pre[j]

\* /cost=[\d.]+..([\d.]+)/ tried at position i: the first group takes as many
\* characters as it can while the rest still matches, each unescaped dot
\* takes any one character, and the captured group takes all it can.  The
\* value is the captured group, or the empty string when there is no match.
MatchAt(str, i) ==
    LET p == i + Len(CostPrefix)
        fits == {n \in 1 .. Stretch(str, p, Class) :
                    p + n + 2 <= Len(str) /\ str[p + n + 2] \in Class}
    IN  IF ~StartsWith(str, i, CostPrefix) \/ fits = {} THEN <<>>
        ELSE LET n == CHOOSE k \in fits : \A m \in fits : m <= k
                 g == p + n + 2
             IN  SubSeq(str, g, g + Stretch(str, g, Class) - 1)

\* plan.match(...): the match at the leftmost position that has one.
costMatch(str) ==
    LET at == {i \in DOMAIN str : MatchAt(str, i) # <<>>}
    IN  IF at = {} THEN <<>> ELSE MatchAt(str, CHOOSE i \in at : \A j \in at : i <= j)

\* A number as parseFloat gives it: NaN, or the digits before and after the
\* point without the zeros that do not count.
Number(nan, int, frac) == [nan |-> nan, int |-> int, frac |-> frac]
Zero == Number(FALSE, <<>>, <<>>)
NaN == Number(TRUE, <<>>, <<>>)

RECURSIVE Lead(_)
Lead(ds) == IF ds # <<>> /\ ds[1] = "0" THEN Lead(Tail(ds)) ELSE ds
RECURSIVE Trail(_)
Trail(ds) == IF ds # <<>> /\ ds[Len(ds)] = "0" THEN Trail(SubSeq(ds, 1, Len(ds) - 1)) ELSE ds

\* parseFloat of a string of digits and points: the longest prefix that is a
\* number (digits, then possibly a point and digits), NaN when there is none.
parseFloat(str) ==
    LET a == Stretch(str, 1, Digits)
        point == a + 1 <= Len(str) /\ str[a + 1] = "."
        b == IF point THEN Stretch(str, a + 2, Digits) ELSE 0
    IN  IF a + b = 0 THEN NaN
        ELSE Number(FALSE, Lead(SubSeq(str, 1, a)), Trail(SubSeq(str, a + 2, a + 1 + b)))

\* Lines 92-94 for the result rows of the EXPLAIN: reading rows[0] of a
\* result without rows throws a TypeError; an empty plan becomes 'N/A'.
Estimate(rows) ==
    IF rows = <<>>
    THEN [got |-> TRUE, rows |-> rows, threw |-> TRUE, cost |-> Zero]
    ELSE LET plan == IF rows[1] = <<>> THEN NotAvailable ELSE rows[1]
             m == costMatch(plan)
         IN  [got |-> TRUE, rows |-> rows, threw |-> FALSE,
              cost |-> IF m = <<>> THEN Zero ELSE parseFloat(m)]

\* No EXPLAIN has come back yet.
NoEstimate == [got |-> FALSE, rows |-> <<>>, threw |-> FALSE, cost |-> Zero]

\* First lines as PostgreSQL gives them for the EXPLAIN of a statement:
\* "(cost=0.00..22.70 rows=1270)" for a scan of users, "(cost=0.00..0.01
\* rows=1)" for an INSERT of one row or a SELECT without a table.
ScanLine ==
    <<"(", "c", "o", "s", "t", "=", "0", ".", "0", "0", ".", ".", "2", "2", ".", "7", "0",
      " ", "r", "o", "w", "s", "=", "1", "2", "7", "0", ")">>
InsertLine ==
    <<"(", "c", "o", "s", "t", "=", "0", ".", "0", "0", ".", ".", "0", ".", "0", "1",
      " ", "r", "o", "w", "s", "=", "1", ")">>
UsualPlans(text) ==
    IF text.q \in {"users", "filter"} THEN {<<ScanLine>>} ELSE {<<InsertLine>>}

\* ------------------------------------------------------ the query wrapper
\* An entry of a caller's trace: k is what happened, w the wrapper it
\* happened in (0: the caller itself or the pool), t the query text.
Ev(k, w, t) == [k |-> k, w |-> w, t |-> t]

Frame(w, t, phase) == [w |-> w, t |-> t, phase |-> phase]

Top(stk) == stk[Len(stk)]
Pop(stk) == SubSeq(stk, 1, Len(stk) - 1)

\* The shared state one task works on: the slot, the queryComplexity maps,
\* the log files, and the acting caller's stack, trace and call in flight.
\* out is the outcome handed to the caller, "none" while a call is in flight;
\* rows are the rows of the result the database has just given.
Task(c) == [slot |-> slot, qc |-> qc, sinks |-> sinks, tr |-> trace[c],
            stack |-> stack[c], pend |-> NoText, out |-> "none",
            est |-> est, rows |-> <<>>]

RECURSIVE InvokeUnprefixed(_, _, _, _)
\* Mutant of Invoke: the wrapper passes the text itself to its estimation
\* call instead of the EXPLAIN text.
InvokeUnprefixed(S, caps, c, text) ==
    IF c = Original
    THEN [S EXCEPT !.pend = text, !.tr = Append(@, Ev("send", 0, text))]
    ELSE InvokeUnprefixed([S EXCEPT !.stack = Append(@, Frame(c, text, "explain")),
                                    !.tr = Append(@, Ev("explain", c, text))],
                          caps, caps[c], text)

RECURSIVE Invoke(_, _, _, _)
\* Calling capability c with text.  The pool's own method sends the text to
\* the database.  A wrapper (lines 86-91) starts its try block and calls its
\* originalQuery with the EXPLAIN text, then waits for it.
Invoke(S, caps, c, text) ==
    IF c = Original
    THEN [S EXCEPT !.pend = text, !.tr = Append(@, Ev("send", 0, text))]
    ELSE Invoke([S EXCEPT !.stack = Append(@, Frame(c, text, "explain")),
                          !.tr = Append(@, Ev("explain", c, text))],
                caps, caps[c], Explain(text))

\* Mutant of WrapperFails: the catch block rethrows without logging.
WrapperFailsUnlogged(S, caps, f) ==
    [S EXCEPT !.slot = caps[f.w],
              !.stack = Pop(@),
              !.tr = Append(@, Ev("restore", f.w, f.t))]

\* Mutant of WrapperFails: the slot is restored at the end of the try block
\* only, so not after a failure.
WrapperFailsUnrestored(S, caps, f) ==
    [S EXCEPT !.sinks = Emit(@, "queryError"),
              !.stack = Pop(@),
              !.tr = Append(@, Ev("queryError", f.w, f.t))]

\* catch (lines 111-115) then finally (117): log, rethrow, restore the slot.
WrapperFails(S, caps, f) ==
    [S EXCEPT !.sinks = Emit(@, "queryError"),
              !.slot = caps[f.w],
              !.stack = Pop(@),
              !.tr = @ \o <<Ev("queryError", f.w, f.t), Ev("restore", f.w, f.t)>>]

\* Mutant of WrapperReturns: the slot is not restored after a success.
WrapperReturnsUnrestored(S, caps, f) ==
    [S EXCEPT !.sinks = Emit(@, "executedQuery"),
              !.qc = [@ EXCEPT ![f.w] = @ \cup {f.t}],
              !.stack = Pop(@),
              !.tr = @ \o <<Ev("realDone", f.w, f.t), Ev("executedQuery", f.w, f.t),
                            Ev("record", f.w, f.t), Ev("restore", f.w, f.t)>>]

\* Lines 97-110 then finally (117): log the query, record it in the request
\* the wrapper was made for, return the result, restore the slot.
WrapperReturns(S, caps, f) ==
    [S EXCEPT !.sinks = Emit(@, "executedQuery"),
              !.qc = [@ EXCEPT ![f.w] = @ \cup {f.t}],
              !.slot = caps[f.w],
              !.stack = Pop(@),
              !.tr = @ \o <<Ev("realDone", f.w, f.t), Ev("executedQuery", f.w, f.t),
                            Ev("record", f.w, f.t), Ev("restore", f.w, f.t)>>]

\* Lines 92-96: the estimation returned; the wrapper calls its originalQuery
\* with the text itself.
WrapperGoesOn(S, f) ==
    [S EXCEPT !.stack = Append(Pop(@), Frame(f.w, f.t, "real")),
              !.tr = @ \o <<Ev("explainDone", f.w, f.t), Ev("real", f.w, f.t)>>]

\* Mutant of RealTarget: the real call is made through pool.query, where the
\* wrapper itself still is.
RealTargetSlot(S, caps, f) == S.slot

\* Line 96: the capability the wrapper makes its real call on, originalQuery.
RealTarget(S, caps, f) == caps[f.w]

\* Lines 92-94: the wrapper reads the plan and works out queryCost.
WrapperEstimates(S, f) == [S EXCEPT !.est[f.w] = Estimate(S.rows)]

\* Lines 92-94 threw: the catch and finally blocks run as for a failed call.
WrapperThrows(S, caps, f) ==
    WrapperFails([S EXCEPT !.tr = Append(@, Ev("threw", f.w, f.t))], caps, f)

RECURSIVE Settle(_, _, _)
\* A call made by the innermost waiting wrapper ended with res; the wrappers
\* run on until one of them waits for a database call again or the outcome
\* reaches the caller.
Settle(S, caps, res) ==
    IF S.stack = <<>>
    THEN [S EXCEPT !.out = res]
    ELSE LET f == Top(S.stack) IN
         IF res = "fail" THEN Settle(WrapperFails(S, caps, f), caps, "fail")
         ELSE IF f.phase = "explain"
              THEN LET S1 == WrapperEstimates(S, f) IN
                   IF S1.est[f.w].threw
                   THEN Settle(WrapperThrows(S1, caps, f), caps, "fail")
                   ELSE Invoke(WrapperGoesOn(S1, f), caps, RealTarget(S1, caps, f), f.t)
              ELSE Settle(WrapperReturns(S, caps, f), caps, "ok")

\* pool.query(text) called by a handler or by the startup callback: whatever
\* is in the slot at that moment is called.  The caller's trace starts anew.
PoolQuery(S, caps, c, text) ==
    Invoke([S EXCEPT !.tr = <<Ev("query", c, text)>>], caps, S.slot, text)

\* The database answered the call in flight.
Answer(S, caps, text, res) ==
    Settle([S EXCEPT !.pend = NoText,
                     !.tr = Append(@, Ev(IF res = "ok" THEN "sent" ELSE "refused", 0, text))],
           caps, res)

\* ------------------------------------------------------------ the handlers
Json(data, error, details) ==
    [type |-> "json", data |-> data, error |-> error, details |-> details]
NoBody == [type |-> "none", data |-> "", error |-> "", details |-> ""]
\* What Express's default error handler sends for an error a handler threw.
ErrorPage == [type |-> "html", data |-> "", error |-> "", details |-> ""]
MetricsText == [type |-> "text", data |-> "metrics", error |-> "", details |-> ""]

\* Math.random() < p / 10 for the sample n.
Below(n, p) == n * 10 < p * RandDen

\* What a handler leaves behind when it returns or suspends.
Waiting(S, i) ==
    [S |-> S, pc |-> "await", status |-> 0, body |-> NoBody, err |-> 0, idx |-> i]
Responded(S, st, bd, e, i) ==
    [S |-> S, pc |-> "responded", status |-> st, body |-> bd, err |-> e, idx |-> i]

Log(S, kind) ==
    [S EXCEPT !.sinks = Emit(@, kind), !.tr = Append(@, Ev(kind, 0, NoText))]

\* Mutant of Caught: the catch block does not count the error.
CaughtUncounted(S, msg, i) ==
    Responded(Log(S, "handlerError"), 500, Json("", msg, ""), 0, i)

\* The catch block of /api/users, /api/orders/generate and /api/users/filter:
\* errorCounter.inc(), logger.error(...), res.status(500).json({ error }).
Caught(S, msg, i) ==
    Responded(Log(S, "handlerError"), 500, Json("", msg, ""), 1, i)

\* app.get('/api/users'), up to its await.
UsersStart(S, caps, r) == Waiting(PoolQuery(S, caps, r, QUsers), 0)

\* app.get('/api/users'), after its await.
UsersResume(S) ==
    IF S.out = "ok"
    THEN Responded(Log(S, "fetchedUsers"), 200, Json("rows", "", ""), 0, 0)
    ELSE Caught(S, "Internal server error", 0)

\* faker.datatype.number({ min, max }): an integer from min to max, both
\* included; n / RandDen is the value the generator behind it gave.
FakerNumber(n, min, max) == (n * (max + 1 - min)) \div RandDen + min

\* generateOrders(count): count orders.  The generator's values alternate
\* between the sample n and its mirror image, so that an array holds values
\* from both ends of each range.
generateOrders(count, n) ==
    [i \in 1 .. count |->
        LET m == IF i % 2 = 1 THEN n ELSE RandDen - 1 - n IN
        [userId |-> FakerNumber(m, UserIdMin, UserIdMax),
         price |-> FakerNumber(m, PriceMin, PriceMax)]]

\* app.get('/api/orders/generate'), up to the first await.
OrdersStart(S, caps, r) == Waiting(PoolQuery(S, caps, r, QInsert), 0)

\* Mutant of OrdersResume: a failed insert is passed over and the loop goes
\* on with the next order.
OrdersResumeGoesOn(S, caps, r, i) ==
    IF i + 1 < OrdersPerRequest
    THEN Waiting(PoolQuery([S EXCEPT !.out = "none"], caps, r, QInsert), i + 1)
    ELSE Responded(Log(S, "savedOrders"), 200, Json(orders[r], "", ""), 0, i + 1)

\* Mutant of OrdersResume: the loop makes one insert more than there are
\* orders.
OrdersResumeOneMore(S, caps, r, i) ==
    IF S.out = "ok"
    THEN IF i + 1 <= OrdersPerRequest
         THEN Waiting(PoolQuery([S EXCEPT !.out = "none"], caps, r, QInsert), i + 1)
         ELSE Responded(Log(S, "savedOrders"), 200, Json(orders[r], "", ""), 0, i + 1)
    ELSE Caught(S, "Failed to generate orders", i)

\* app.get('/api/orders/generate'), after the await of one insert; i is
\* insertedRows before it.
OrdersResume(S, caps, r, i) ==
    IF S.out = "ok"
    THEN IF i + 1 < OrdersPerRequest
         THEN Waiting(PoolQuery([S EXCEPT !.out = "none"], caps, r, QInsert), i + 1)
         ELSE Responded(Log(S, "savedOrders"), 200, Json(orders[r], "", ""), 0, i + 1)
    ELSE Caught(S, "Failed to generate orders", i)

\* Mutant of FilterStart: the test of age is missing.
FilterStartUnchecked(S, caps, r, age) == Waiting(PoolQuery(S, caps, r, QFilter), 0)

\* app.get('/api/users/filter'), up to its await.
FilterStart(S, caps, r, age) ==
    IF ~age
    THEN Caught(S, "Age query parameter is required", 0)
    ELSE Waiting(PoolQuery(S, caps, r, QFilter), 0)

\* app.get('/api/users/filter'), after its await; n is the Math.random() sample.
FilterResume(S, n) ==
    IF S.out = "ok"
    THEN IF Below(n, 3)
         THEN Caught(S, "Random server failure", 0)
         ELSE Responded(Log(S, "filteredUsers"), 200, Json("rows", "", ""), 0, 0)
    ELSE Caught(S, "query failed", 0)

\* app.get('/api/compute'); n is the sample of failureChance.  The catch
\* block increments the counter and then reads `start`, a const of the try
\* block that is not in scope there: the read throws a ReferenceError before
\* logger.error and res.status(500).json are reached, and Express answers
\* with its default error page.
Compute(S, n) ==
    LET S1 == Log(S, "computeStart") IN
    IF Below(n, 8)
    THEN Responded([S1 EXCEPT !.tr = Append(@, Ev("uncaught", 0, NoText))],
                   500, ErrorPage, 1, 0)
    ELSE Responded(Log(S1, "computeDone"), 200, Json("result", "", ""), 0, 0)

\* app.get('/metrics'), up to its await.
MetricsStart(S) ==
    [S |-> S, pc |-> "metrics", status |-> 0, body |-> NoBody, err |-> 0, idx |-> 0]

\* The route handler Express dispatches to, run until it returns or suspends.
Dispatch(S, caps, r, rt, age, n) ==
    CASE rt = "users" -> UsersStart(S, caps, r)
      [] rt = "orders" -> OrdersStart(S, caps, r)
      [] rt = "filter" -> FilterStart(S, caps, r, age)
      [] rt = "compute" -> Compute(S, n)
      [] rt = "metrics" -> MetricsStart(S)

\* The handler that was waiting for pool.query goes on with the outcome.
Resume(S, caps, r, rt, i, n) ==
    CASE rt = "users" -> UsersResume(S)
      [] rt = "orders" -> OrdersResume(S, caps, r, i)
      [] rt = "filter" -> FilterResume(S, n)

\* logQueryComplexity (lines 82-121): capture the slot, put the wrapper of r
\* in it, call next().
Install(S, r) == [S EXCEPT !.slot = r]

\* Mutant of NetworkLatency: Math.floor(Math.random() * 100).
NetworkLatencyFromZero(n) == (n * 100) \div RandDen

\* Math.floor(Math.random() * 91) + 10
NetworkLatency(n) == (n * LatencySpan) \div RandDen + LatencyBase

\* const duration = Date.now() - start
Duration(now, began) == now - began

InFlight(r) == pc[r] \notin {"new", "finished"}

\* ------------------------------------------------------------- the actions
\* The writes of one task of request r: the shared state and r's own.
Commit(r, H) ==
    /\ slot' = H.S.slot
    /\ qc' = H.S.qc
    /\ est' = H.S.est
    /\ sinks' = H.S.sinks
    /\ trace' = [trace EXCEPT ![r] = H.S.tr]
    /\ stack' = [stack EXCEPT ![r] = H.S.stack]
    /\ pend' = [pend EXCEPT ![r] = H.S.pend]
    /\ pc' = [pc EXCEPT ![r] = H.pc]
    /\ status' = [status EXCEPT ![r] = H.status]
    /\ body' = [body EXCEPT ![r] = H.body]
    /\ idx' = [idx EXCEPT ![r] = H.idx]
    /\ errors' = errors + H.err

\* A request reaches the access-log middleware (lines 52-59, 78): it reads the
\* clock, draws its latency and sets the timer.  Requests are numbered in the
\* order they arrive; the server takes them once it listens.
Arrive(r, routes, samples) ==
    /\ pc[r] = "new"
    /\ pc[Boot] # "init"
    /\ r = 1 \/ pc[r - 1] # "new"
    /\ \E rt \in routes, age \in BOOLEAN, n \in samples :
          /\ rt # "filter" => ~age
          /\ route' = [route EXCEPT ![r] = rt]
          /\ hasAge' = [hasAge EXCEPT ![r] = age]
          /\ lat' = [lat EXCEPT ![r] = NetworkLatency(n)]
    /\ start' = [start EXCEPT ![r] = clock]
    /\ pc' = [pc EXCEPT ![r] = "delay"]
    /\ overlap' = [s \in Reqs |->
                      IF s = r THEN \E o \in Reqs \ {r} : InFlight(o)
                      ELSE overlap[s] \/ InFlight(s)]
    /\ UNCHANGED <<slot, cap, stack, pend, trace, qc, est, idx, orders, status, body, access,
                   errors, histCount, scrapes, sinks, clock, ordersRows, retries, liveness, seedI>>

\* Mutant of TimerFire: next() is called without waiting for the timer.
TimerFireAtOnce(r) ==
    /\ pc[r] = "delay"
    /\ \E n \in (IF route[r] = "compute" THEN RandSamples ELSE {0}) :
          LET caps == [cap EXCEPT ![r] = slot]
              H == Dispatch(Install(Task(r), r), caps, r, route[r], hasAge[r], n)
          IN  /\ cap' = caps
              /\ Commit(r, H)
    /\ \E n \in (IF route[r] = "orders" THEN FakerSamples ELSE {0}) :
          orders' = [orders EXCEPT ![r] = IF route[r] = "orders"
                                          THEN generateOrders(OrdersPerRequest, n)
                                          ELSE @]
    /\ UNCHANGED <<route, hasAge, start, lat, access, histCount, scrapes, clock,
                   ordersRows, retries, liveness, seedI, overlap>>

\* The timer of r fires (lines 60-78): the finish listener is registered,
\* next() runs logQueryComplexity, whose next() runs the route handler up to
\* its first await or to its end.
TimerFire(r) ==
    /\ pc[r] = "delay"
    /\ \E n \in (IF route[r] = "compute" THEN RandSamples ELSE {0}) :
          LET caps == [cap EXCEPT ![r] = slot]
              H == Dispatch(Install(Task(r), r), caps, r, route[r], hasAge[r], n)
          IN  /\ cap' = caps
              /\ Commit(r, H)
    /\ \E n \in (IF route[r] = "orders" THEN FakerSamples ELSE {0}) :
          orders' = [orders EXCEPT ![r] = IF route[r] = "orders"
                                          THEN generateOrders(OrdersPerRequest, n)
                                          ELSE @]
    /\ clock' = Most(clock, start[r] + lat[r])
    /\ UNCHANGED <<route, hasAge, start, lat, access, histCount, scrapes,
                   ordersRows, retries, liveness, seedI, overlap>>

\* A row without a 'QUERY PLAN' column: reading the column gives undefined,
\* which || replaces as it replaces the empty string.
DataRow == <<>>

\* The rows of the result the database gives for text when it accepts it:
\* a plan for an EXPLAIN, no row for an INSERT, a row of data for a SELECT.
RowsFor(text, res) ==
    IF res # "ok" THEN {<<>>}
    ELSE IF text.x = 1 THEN UsualPlans(text)
    ELSE IF text.q \in {"insert", "seed"} THEN {<<>>}
    ELSE {<<DataRow>>}

\* The database answers the call request r has in flight; the wrappers on
\* r's stack and then r's handler run on.
DbReturn(r) ==
    /\ pc[r] = "await"
    /\ \E res \in DbOutcomes(pend[r]),
          n \in (IF route[r] = "filter" THEN RandSamples ELSE {0}) :
       \E rows \in RowsFor(pend[r], res) :
          LET S1 == Answer([Task(r) EXCEPT !.rows = rows], cap, pend[r], res)
              H == IF S1.out = "none" THEN Waiting(S1, idx[r])
                   ELSE Resume(S1, cap, r, route[r], idx[r], n)
          IN  /\ Commit(r, H)
              /\ ordersRows' = RowsAfter(ordersRows, pend[r], res)
    /\ UNCHANGED <<route, hasAge, start, lat, cap, orders, access, histCount, scrapes,
                   clock, retries, liveness, seedI, overlap>>

\* Mutant of MetricsRead: the registry is reset once it has been read.
MetricsReadResets(r) ==
    /\ pc[r] = "metrics"
    /\ scrapes' = [scrapes EXCEPT ![r] = <<errors, histCount>>]
    /\ pc' = [pc EXCEPT ![r] = "responded"]
    /\ status' = [status EXCEPT ![r] = 200]
    /\ body' = [body EXCEPT ![r] = MetricsText]
    /\ errors' = 0
    /\ histCount' = 0
    /\ UNCHANGED <<route, hasAge, start, lat, slot, cap, stack, pend, trace, qc, est, idx, orders,
                   access, sinks, clock, ordersRows, retries, liveness, seedI, overlap>>

\* app.get('/metrics') after its await: the registry is read and sent.
MetricsRead(r) ==
    /\ pc[r] = "metrics"
    /\ scrapes' = [scrapes EXCEPT ![r] = <<errors, histCount>>]
    /\ pc' = [pc EXCEPT ![r] = "responded"]
    /\ status' = [status EXCEPT ![r] = 200]
    /\ body' = [body EXCEPT ![r] = MetricsText]
    /\ UNCHANGED <<route, hasAge, start, lat, slot, cap, stack, pend, trace, qc, est, idx, orders,
                   access, errors, histCount, sinks, clock, ordersRows, retries,
                   liveness, seedI, overlap>>

\* The record the finish listener logs (lines 62-75).
AccessRecord(r) ==
    [status |-> status[r],
     response_time_ms |-> Duration(clock, start[r]),
     network_latency_ms |-> lat[r]]

\* res 'finish' (lines 61-76): the timer of the histogram is stopped and the
\* access line is logged.
Finish(r) ==
    /\ pc[r] = "responded"
    /\ pc' = [pc EXCEPT ![r] = "finished"]
    /\ histCount' = histCount + 1
    /\ access' = [access EXCEPT ![r] = Append(@, AccessRecord(r))]
    /\ sinks' = Emit(sinks, "accessLine")
    /\ UNCHANGED <<route, hasAge, start, lat, slot, cap, stack, pend, trace, qc, est, idx, orders,
                   status, body, errors, scrapes, clock, ordersRows, retries,
                   liveness, seedI, overlap>>

Handle(r) ==
    \/ TimerFire(r)
    \/ DbReturn(r)
    \/ MetricsRead(r)
    \/ Finish(r)

\* ------------------------------------------------- the startup callback
Booting(S, p, i, n) ==
    [S |-> S, pc |-> p, idx |-> i, retries |-> n, asked |-> 0, taken |-> 0]

\* The loop over the generated users (lines 287-298): the next insert, or
\* the end of the callback.
SeedNext(S, i, n) ==
    IF seedI < MaxSeed
    THEN [Booting(PoolQuery([S EXCEPT !.out = "none"], cap, Boot, QSeed), "seed", i, n)
             EXCEPT !.taken = 1]
    ELSE Booting(S, "done", i, n)

\* Mutant of GateResume: a failure does not use up a retry.
GateResumeKeepsRetries(S, i, n) ==
    IF S.out = "ok" THEN SeedNext(S, i, n) ELSE Booting(S, "wait", i, n)

\* waitForPostgres after the await of pool.query('SELECT NOW()'): break on
\* success, else one retry less and the 5 s sleep.
GateResume(S, i, n) ==
    IF S.out = "ok" THEN SeedNext(S, i, n) ELSE Booting(S, "wait", i, n - 1)

\* waitForPostgres after its sleep: the while (retries) test.
GateWake(S, i, n) ==
    IF n # 0
    THEN [Booting(PoolQuery(S, cap, Boot, QNow), "gate", i, n) EXCEPT !.asked = 1]
    ELSE SeedNext(S, i, n)

\* The body of the seeding loop after its await (lines 293-297).
SeedResume(S, i, n) ==
    IF S.out = "ok" THEN SeedNext(Log(S, "insertedUser"), i + 1, n)
    ELSE SeedNext(Log(S, "seedError"), i, n)

BootCommit(B) ==
    /\ slot' = B.S.slot
    /\ qc' = B.S.qc
    /\ est' = B.S.est
    /\ sinks' = B.S.sinks
    /\ trace' = [trace EXCEPT ![Boot] = B.S.tr]
    /\ stack' = [stack EXCEPT ![Boot] = B.S.stack]
    /\ pend' = [pend EXCEPT ![Boot] = B.S.pend]
    /\ pc' = [pc EXCEPT ![Boot] = B.pc]
    /\ idx' = [idx EXCEPT ![Boot] = B.idx]
    /\ retries' = B.retries
    /\ liveness' = liveness + B.asked
    /\ seedI' = seedI + B.taken
    /\ UNCHANGED <<route, hasAge, start, lat, cap, orders, status, body, access, errors,
                   histCount, scrapes, clock, ordersRows, overlap>>

\* app.listen's callback starts: waitForPostgres sets retries and makes its
\* first call.
BootStart ==
    /\ pc[Boot] = "init"
    /\ BootCommit(GateWake(Task(Boot), 0, GateRetries))

\* The database answers the call the startup callback has in flight.
BootDbReturn ==
    /\ pc[Boot] \in {"gate", "seed"}
    /\ \E res \in DbOutcomes(pend[Boot]) :
       \E rows \in RowsFor(pend[Boot], res) :
          LET S1 == Answer([Task(Boot) EXCEPT !.rows = rows], cap, pend[Boot], res)
          IN  BootCommit(IF S1.out = "none" THEN Booting(S1, pc[Boot], idx[Boot], retries)
                         ELSE IF pc[Boot] = "gate" THEN GateResume(S1, idx[Boot], retries)
                         ELSE SeedResume(S1, idx[Boot], retries))

\* The 5 s sleep of waitForPostgres ends.
BootWake ==
    /\ pc[Boot] = "wait"
    /\ BootCommit(GateWake(Task(Boot), idx[Boot], retries))

BootStep == BootStart \/ BootDbReturn \/ BootWake

\* ------------------------------------------------------ the specifications
NoSinks == [f \in Files |-> [k \in Kinds |-> 0]]

RECURSIVE EmitTimes(_, _, _)
EmitTimes(sk, kind, n) == IF n = 0 THEN sk ELSE EmitTimes(Emit(sk, kind), kind, n - 1)

\* The last trace of a startup in which no request interfered and no call
\* failed.
QuietBoot ==
    IF MaxSeed = 0
    THEN <<Ev("query", Boot, QNow), Ev("send", 0, QNow), Ev("sent", 0, QNow)>>
    ELSE <<Ev("query", Boot, QSeed), Ev("send", 0, QSeed), Ev("sent", 0, QSeed),
           Ev("insertedUser", 0, NoText)>>

RequestsInit ==
    /\ route = [r \in Reqs |-> "users"]
    /\ hasAge = [r \in Reqs |-> FALSE]
    /\ start = [r \in Reqs |-> 0]
    /\ lat = [r \in Reqs |-> 0]
    /\ slot = Original
    /\ cap = [r \in Reqs |-> Original]
    /\ stack = [c \in Callers |-> <<>>]
    /\ pend = [c \in Callers |-> NoText]
    /\ qc = [r \in Reqs |-> {}]
    /\ est = [r \in Reqs |-> NoEstimate]
    /\ orders = [r \in Reqs |-> <<>>]
    /\ status = [r \in Reqs |-> 0]
    /\ body = [r \in Reqs |-> NoBody]
    /\ access = [r \in Reqs |-> <<>>]
    /\ scrapes = [r \in Reqs |-> <<>>]
    /\ errors = 0
    /\ histCount = 0
    /\ clock = 0
    /\ ordersRows = 0
    /\ retries = GateRetries
    /\ overlap = [r \in Reqs |-> FALSE]

\* The server after a quiet startup: the requests come after the callback of
\* app.listen has ended.
Init ==
    /\ RequestsInit
    /\ pc = [c \in Callers |-> IF c = Boot THEN "done" ELSE "new"]
    /\ idx = [c \in Callers |-> IF c = Boot THEN MaxSeed ELSE 0]
    /\ trace = [c \in Callers |-> IF c = Boot THEN QuietBoot ELSE <<>>]
    /\ sinks = EmitTimes(NoSinks, "insertedUser", MaxSeed)
    /\ liveness = 1
    /\ seedI = MaxSeed

\* The server as app.listen(3000, ...) leaves it, the callback not yet run.
InitBoot ==
    /\ RequestsInit
    /\ pc = [c \in Callers |-> IF c = Boot THEN "init" ELSE "new"]
    /\ idx = [c \in Callers |-> 0]
    /\ trace = [c \in Callers |-> <<>>]
    /\ sinks = NoSinks
    /\ liveness = 0
    /\ seedI = 0

\* A request that arrives while no other request is in flight.
ArriveAlone(r, routes, samples) ==
    /\ \A s \in Reqs : ~InFlight(s)
    /\ Arrive(r, routes, samples)

\* The routes a further request may ask for: at most MaxOrders requests of a
\* run ask for /api/orders/generate.
RoutesLeft ==
    IF Cardinality({s \in Reqs : pc[s] # "new" /\ route[s] = "orders"}) < MaxOrders
    THEN Routes ELSE Routes \ {"orders"}

\* Requests that overlap in any way.
Next == \E r \in 1 .. MaxReq : Arrive(r, RoutesLeft, LatencySamples) \/ Handle(r)

\* A route whose handler awaits the database and one whose handler does not.
ShortRoutes == {"users", "metrics"}

\* Requests that overlap in any way, all of them asking for one of the two
\* short routes.
NextShort ==
    \E r \in 1 .. MaxReq : Arrive(r, ShortRoutes, LatencySamples) \/ Handle(r)

\* Requests sent one after the other, each after the response to the one
\* before it has finished.
NextSeq == \E r \in 1 .. SeqReq : ArriveAlone(r, Routes, LatencySamples) \/ Handle(r)

\* The startup callback, and requests sent one after the other while it runs
\* and after it; none of them asks for /api/orders/generate and all draw the
\* shortest latency.
NextBoot ==
    BootStep \/ \E r \in 1 .. BootReq : ArriveAlone(r, Routes \ {"orders"}, {0}) \/ Handle(r)

Spec == Init /\ [][Next]_vars

SpecShort == Init /\ [][NextShort]_vars

SpecSeq == Init /\ [][NextSeq]_vars

SpecBoot == InitBoot /\ [][NextBoot]_vars

\* The database answers every call and every timer fires, so a step of the
\* startup callback that can be taken is taken.
SpecBootFair == SpecBoot /\ WF_vars(BootStep)

\* ------------------------------------------------------------- the claims
Has(tr, k) == \E i \in DOMAIN tr : tr[i].k = k

Answered(r) == pc[r] \in {"responded", "finished"}

\* C1: in a run of requests that do not overlap, the slot holds the original
\* capability whenever the handler of a request has sent its response, and
\* every wrapper was installed over the original capability.
C1_RestoredAtResponse ==
    \A r \in Reqs :
        /\ pc[r] = "responded" => slot = Original
        /\ pc[r] \notin {"new", "delay"} => cap[r] = Original

\* C2: whenever a wrapper records a query in a queryComplexity map, the map is
\* the one of the request whose handler called pool.query.
C2_RecordedInIssuer ==
    \A r \in Reqs : \A i \in DOMAIN trace[r] :
        trace[r][i].k = "record" => trace[r][i].w = r

\* C3: a request answered with 500 was answered by the catch block of its
\* handler: the counter was incremented, an error record was logged, the body
\* is JSON with an error (and details for /api/compute), and nothing was
\* thrown out of the handler.
C3_FailuresCaught ==
    \A r \in Reqs :
        (Answered(r) /\ status[r] = 500) =>
            /\ errors >= 1
            /\ Has(trace[r], "handlerError")
            /\ ~Has(trace[r], "uncaught")
            /\ body[r].type = "json"
            /\ body[r].error # ""
            /\ route[r] = "compute" => body[r].details # ""

\* The wrapper invocations of a trace that are still running at position j:
\* entered before j and not yet past their finally block.
Running(tr, j) ==
    {i \in 1 .. (j - 1) :
        /\ tr[i].k = "explain"
        /\ ~\E m \in (i + 1) .. (j - 1) :
              tr[m].k = "restore" /\ tr[m].w = tr[i].w /\ tr[m].t = tr[i].t}

\* The positions after j at which invocation i of the trace did k.
Did(tr, i, j, k) ==
    {m \in (j + 1) .. Len(tr) : tr[m].k = k /\ tr[m].w = tr[i].w /\ tr[m].t = tr[i].t}

\* C4: when the database refuses a call, be it an estimation or a real call,
\* every wrapper invocation that was waiting for it logs one QUERY_ERROR
\* record and none of them logs or records the query as executed; no further
\* call is made, and the handler that called pool.query gets the failure and
\* answers 500.
C4_FailurePropagates ==
    \A r \in Reqs : \A j \in DOMAIN trace[r] :
        trace[r][j].k = "refused" =>
            /\ \A i \in Running(trace[r], j) :
                  /\ Cardinality(Did(trace[r], i, j, "queryError")) = 1
                  /\ Did(trace[r], i, j, "executedQuery") = {}
                  /\ Did(trace[r], i, j, "record") = {}
                  /\ Did(trace[r], i, j, "restore") # {}
            /\ \A m \in (j + 1) .. Len(trace[r]) : trace[r][m].k # "send"
            /\ stack[r] = <<>>
            /\ Answered(r) /\ status[r] = 500

\* C4 witness: one request whose estimation call was refused and another
\* whose real call was refused, both inside a wrapper.
C4_Witness ==
    \E r1, r2 \in Reqs :
        /\ \E j \in DOMAIN trace[r1] :
              /\ trace[r1][j].k = "refused" /\ trace[r1][j].t.x = 1
              /\ Running(trace[r1], j) # {}
        /\ \E j \in DOMAIN trace[r2] :
              /\ trace[r2][j].k = "refused" /\ trace[r2][j].t.x = 0
              /\ Running(trace[r2], j) # {}

\* A trace without any sign of a wrapper: the text went to the database as
\* it was.
Plain(tr) ==
    \A i \in DOMAIN tr : tr[i].w \in {0} \cup {tr[1].w} /\ tr[i].t.x = 0
        /\ tr[i].k \notin {"explain", "explainDone", "real", "realDone",
                           "executedQuery", "record", "queryError", "restore"}

\* The trace of a query that went through the wrapper of r alone.
Instrumented(tr, r) ==
    /\ Cardinality({i \in DOMAIN tr : tr[i].k = "explain"}) = 1
    /\ tr[2] = Ev("explain", r, QInsert)
    /\ Cardinality({i \in DOMAIN tr : tr[i].k = "send" /\ tr[i].t.x > 0}) = 1
    /\ tr[3] = Ev("send", 0, Explain(QInsert))
    /\ Cardinality({i \in DOMAIN tr : tr[i].k = "executedQuery"}) <= 1
    /\ Cardinality({i \in DOMAIN tr : tr[i].k = "record"}) <= 1

\* The request asked for /api/orders/generate, its wrapper was installed over
\* the original capability, and no other request was in flight during it.
OrdersAlone(r) ==
    /\ route[r] = "orders"
    /\ pc[r] \notin {"new", "delay"}
    /\ cap[r] = Original
    /\ ~overlap[r]

\* C5: in a request to /api/orders/generate that runs alone over the original
\* capability, the first insert goes through the wrapper (one estimation
\* call, at most one db record and one queryComplexity entry); once the first
\* invocation is over the slot holds the original capability as long as the
\* request is in flight, and every later insert goes to the database plain.
C5_OnlyFirstInstrumented ==
    \A r \in Reqs :
        OrdersAlone(r) =>
            /\ idx[r] = 0 => Instrumented(trace[r], r)
            /\ idx[r] >= 1 => Plain(trace[r]) /\ qc[r] = {QInsert}
            /\ qc[r] \subseteq {QInsert}
            /\ (InFlight(r) /\ (idx[r] >= 1 \/ pc[r] = "responded")) => slot = Original
            /\ (idx[r] >= 1 /\ \A s \in Reqs \ {r} : pc[s] = "new") =>
                  sinks["db"]["executedQuery"] = 1

\* C5 witness: such a request has made all its inserts and answered 200.
C5_Witness ==
    \E r \in Reqs :
        OrdersAlone(r) /\ idx[r] = OrdersPerRequest /\ status[r] = 200 /\ Plain(trace[r])

\* C6: a wrapper issues its real call only after its estimation call has
\* come back from the database, and logs and records a query only after the
\* real call has come back.
C6_Ordered ==
    \A c \in Callers : \A i \in DOMAIN trace[c] :
        LET e == trace[c][i] IN
        /\ e.k = "real" =>
              \E a, b \in 1 .. (i - 1) :
                  /\ a < b
                  /\ trace[c][a] = Ev("explain", e.w, e.t)
                  /\ trace[c][b] = Ev("sent", 0, Explain(e.t))
        /\ e.k \in {"executedQuery", "record"} =>
              \E a, b \in 1 .. (i - 1) :
                  /\ a < b
                  /\ trace[c][a] = Ev("real", e.w, e.t)
                  /\ trace[c][b] = Ev("sent", 0, e.t)
        /\ e.k = "record" => \E a \in 1 .. (i - 1) : trace[c][a] = Ev("executedQuery", e.w, e.t)

\* C6 witness: a wrapper has logged and recorded a query.
C6_Witness ==
    \E r \in Reqs : Has(trace[r], "record") /\ Has(trace[r], "executedQuery")

\* C7: a request has one access record once its response has finished and
\* none before; the record carries a response time >= 0 and the latency drawn
\* for this request, an integer from 10 to 100.
C7_OneAccessRecord ==
    \A r \in Reqs :
        /\ Len(access[r]) = (IF pc[r] = "finished" THEN 1 ELSE 0)
        /\ \A i \in DOMAIN access[r] :
              /\ access[r][i].response_time_ms >= 0
              /\ access[r][i].network_latency_ms = lat[r]
              /\ access[r][i].network_latency_ms \in 10 .. 100
              /\ access[r][i].status = status[r]
              /\ status[r] \in {200, 500}
        /\ pc[r] # "new" => lat[r] \in 10 .. 100

\* C7 witness: two requests have finished, one with the shortest and one with
\* the longest latency.
C7_Witness ==
    \E r1, r2 \in Reqs :
        /\ pc[r1] = "finished" /\ access[r1][1].network_latency_ms = 10
        /\ pc[r2] = "finished" /\ access[r2][1].network_latency_ms = 100
        /\ access[r2][1].response_time_ms >= 100

NoAge(r) == route[r] = "filter" /\ ~hasAge[r] /\ pc[r] \notin {"new", "delay"}

\* C8: a request to /api/users/filter without age is answered 500 with the
\* message of the validation error as soon as its handler runs, the counter
\* counts it, and it makes no call to pool.query and sends nothing to the
\* database.
C8_NoAgeNoQuery ==
    /\ \A r \in Reqs :
          NoAge(r) =>
              /\ Answered(r) /\ status[r] = 500
              /\ body[r] = Json("", "Age query parameter is required", "")
              /\ ~Has(trace[r], "query") /\ ~Has(trace[r], "send")
              /\ pend[r] = NoText /\ stack[r] = <<>>
    /\ errors >= Cardinality({r \in Reqs : NoAge(r)})

\* C8 witness: such a request has finished.
C8_Witness == \E r \in Reqs : NoAge(r) /\ pc[r] = "finished"

\* C9: waitForPostgres calls pool.query at most 10 times; it sleeps after
\* each failure and calls again only while retries are left; after the first
\* success, or after 10 failures, the seeding loop runs; the callback reaches
\* its end.
C9_GateInv ==
    /\ liveness <= GateRetries
    /\ retries \in 0 .. GateRetries
    /\ pc[Boot] = "init" => liveness = 0
    /\ pc[Boot] = "gate" => retries >= 1 /\ liveness = GateRetries - retries + 1
    /\ pc[Boot] = "wait" => liveness = GateRetries - retries
    /\ pc[Boot] \in {"seed", "done"} =>
          \/ retries = 0 /\ liveness = GateRetries
          \/ retries >= 1 /\ liveness = GateRetries - retries + 1
    /\ pc[Boot] = "done" => seedI = MaxSeed

C9_GateTerminates == []C9_GateInv /\ <>(pc[Boot] = "done")

\* C9 witness: the callback has ended after 10 failed liveness queries.
C9_Witness ==
    pc[Boot] = "done" /\ retries = 0 /\ liveness = GateRetries /\ seedI = MaxSeed

\* C10: no step lowers app_errors_total or the observation count of the
\* histogram, the step in which /metrics reads them leaves both as they are,
\* and what a scrape reads is never below what an earlier scrape read.
C10_Monotonic ==
    [][/\ errors' >= errors
       /\ histCount' >= histCount
       /\ \A r \in Reqs :
             scrapes'[r] # scrapes[r] =>
                 /\ errors' = errors /\ histCount' = histCount
                 /\ scrapes'[r] = <<errors, histCount>>
                 /\ \A s \in Reqs :
                       scrapes[s] # <<>> =>
                           scrapes[s][1] <= scrapes'[r][1] /\ scrapes[s][2] <= scrapes'[r][2]
      ]_vars

\* C10 witness: /metrics was read after an error was counted and a response
\* time observed.
C10_Witness ==
    \E r \in Reqs : scrapes[r] # <<>> /\ scrapes[r][1] >= 1 /\ scrapes[r][2] >= 1

RECURSIVE Sum(_, _)
Sum(f, S) == IF S = {} THEN 0 ELSE LET x == CHOOSE y \in S : TRUE IN f[x] + Sum(f, S \ {x})

\* The request asked for /api/orders/generate and its handler has started.
OrdersRun(r) == route[r] = "orders" /\ pc[r] \notin {"new", "delay"}

OrdersOk(r) == OrdersRun(r) /\ Answered(r) /\ status[r] = 200

\* C11: a request to /api/orders/generate answered with 200 has made 10
\* inserts and its body is an array of 10 orders, each with a price from 10
\* to 1000; the orders table holds as many rows as the handlers of all such
\* requests have counted, 10 for each one answered with 200 whatever the
\* requests before it inserted.
C11_TenRowsEach ==
    /\ \A r \in Reqs :
          OrdersOk(r) =>
              /\ idx[r] = 10
              /\ body[r].type = "json" /\ body[r].error = ""
              /\ Len(body[r].data) = 10
              /\ \A i \in DOMAIN body[r].data : body[r].data[i].price \in 10 .. 1000
    /\ ordersRows = Sum([r \in Reqs |-> IF OrdersRun(r) THEN idx[r] ELSE 0], Reqs)
    /\ (\A r \in Reqs : OrdersRun(r) => OrdersOk(r)) =>
          ordersRows = 10 * Cardinality({r \in Reqs : OrdersOk(r)})

\* C11 witness: two requests to /api/orders/generate, one after the other,
\* were answered with 200; the table holds 20 rows, and the arrays hold the
\* lowest and the highest price.
C11_Witness ==
    \E r1, r2 \in Reqs :
        /\ r1 # r2 /\ OrdersOk(r1) /\ OrdersOk(r2)
        /\ ordersRows = 20
        /\ \E i, j \in 1 .. 10 : body[r1].data[i].price = 10 /\ body[r2].data[j].price = 1000

\* C12: while a request waits for its timer every other request goes on: one
\* that has arrived can take its next step until its response has finished,
\* and the next one can arrive.  A request whose timer has not fired has not
\* reached logQueryComplexity or its handler, and a handler runs only once
\* the clock is past the request's arrival plus its latency.
C12_DelayIsPerRequest ==
    /\ \A a \in 1 .. MaxReq :
          pc[a] = "delay" =>
              /\ \A b \in (1 .. MaxReq) \ {a} :
                    pc[b] \notin {"new", "finished"} => ENABLED Handle(b)
              /\ (\E b \in 1 .. MaxReq : pc[b] = "new") =>
                    ENABLED (\E b \in 1 .. MaxReq :
                                Arrive(b, ShortRoutes, LatencySamples))
              /\ trace[a] = <<>> /\ qc[a] = {} /\ status[a] = 0 /\ slot # a
    /\ \A r \in 1 .. MaxReq :
          pc[r] \notin {"new", "delay"} => clock >= start[r] + lat[r]

\* C12 witness: a request that arrived first and drew the longest latency is
\* still waiting when one that arrived after it has finished.
C12_Witness ==
    \E a, b \in 1 .. MaxReq :
        /\ a < b
        /\ pc[a] = "delay" /\ lat[a] = 100
        /\ pc[b] = "finished" /\ status[b] = 200
        /\ access[b][1].response_time_ms < lat[a]

\* The positions of the entries a step has added to the trace of caller c.
Added(c) ==
    IF /\ Len(trace'[c]) >= Len(trace[c])
       /\ SubSeq(trace'[c], 1, Len(trace[c])) = trace[c]
    THEN (Len(trace[c]) + 1) .. Len(trace'[c])
    ELSE DOMAIN trace'[c]

\* C13: once the response of a request has finished, no step invokes the
\* wrapper that was made for it, on behalf of any request or of the startup
\* callback, and no step changes its queryComplexity map.
C13_ContextOwned ==
    [][\A r \in Reqs :
          pc[r] = "finished" =>
              /\ qc'[r] = qc[r]
              /\ \A c \in Callers : \A i \in Added(c) :
                    ~(trace'[c][i].k = "explain" /\ trace'[c][i].w = r)
      ]_vars

\* The length of the number (digits, then possibly a point and digits) that
\* str has at position p, 0 when it has none there.
NumLen(str, p) ==
    LET a == Stretch(str, p, Digits)
        b == IF a >= 1 /\ p + a <= Len(str) /\ str[p + a] = "."
             THEN Stretch(str, p + a + 1, Digits) ELSE 0
    IN  IF b >= 1 THEN a + 1 + b ELSE a

\* The number after the two points of a figure cost=<a>..<b> that starts at
\* position i of str, as a string; the empty string when there is no such
\* figure at i.
FigureAt(str, i) ==
    IF ~StartsWith(str, i, CostPrefix) THEN <<>>
    ELSE LET p == i + Len(CostPrefix)
             a == NumLen(str, p)
         IN  IF a = 0 \/ p + a + 1 > Len(str) \/ str[p + a] # "." \/ str[p + a + 1] # "."
             THEN <<>>
             ELSE SubSeq(str, p + a + 2, p + a + 1 + NumLen(str, p + a + 2))

\* The cost the wrapper is to take from the rows of an EXPLAIN result: the
\* number after the two points of the first figure of the first plan line, 0
\* when there is no row or no figure.
StatedCost(rows) ==
    IF rows = <<>> THEN Zero
    ELSE LET at == {i \in DOMAIN rows[1] : FigureAt(rows[1], i) # <<>>}
         IN  IF at = {} THEN Zero
             ELSE parseFloat(FigureAt(rows[1], CHOOSE i \in at : \A j \in at : i <= j))

\* C14: whenever a wrapper has read the result of its EXPLAIN, nothing was
\* thrown, its queryCost is the number after the two points of the cost figure
\* of the first plan line, or 0 when there is no such figure or no plan row,
\* and the wrapper went on to its real call.
C14_CostParsed ==
    /\ \A r \in Reqs :
          est[r].got => ~est[r].threw /\ est[r].cost = StatedCost(est[r].rows)
    /\ \A c \in Callers : \A i \in DOMAIN trace[c] :
          /\ trace[c][i].k # "threw"
          /\ trace[c][i].k = "explainDone" =>
                i < Len(trace[c]) /\ trace[c][i + 1] = Ev("real", trace[c][i].w, trace[c][i].t)

\* C15: a record logged with a transport field is in the file the field names
\* and in no other file, the access record of a response is in the access
\* file alone and once per finished response, and the error file holds only
\* records of level error.
C15_OneSinkEach ==
    /\ \A k \in InfoKinds : \A f \in Files :
          (TransportOf(k) # "none" /\ f # TransportOf(k)) => sinks[f][k] = 0
    /\ \A f \in Files \ {"access"} : sinks[f]["accessLine"] = 0
    /\ sinks["access"]["accessLine"] = histCount
    /\ \A k \in InfoKinds : sinks["error"][k] = 0

\* The positions of a trace at which the text t went to the database (k is
\* "send") or came back accepted (k is "sent").
Plainly(tr, k, t) == {i \in DOMAIN tr : tr[i].k = k /\ tr[i].t = t}

\* The call to pool.query that the trace is about is over.
Over(c) ==
    /\ trace[c] # <<>> /\ trace[c][1].k = "query"
    /\ pend[c] = NoText /\ stack[c] = <<>>

\* C16: of all the calls that one call to pool.query(text) makes on the
\* pool's own method, whatever wrappers are in the slot, at most one passes
\* the text itself and all others pass the text under EXPLAIN prefixes; when
\* the call is over and the database has refused nothing, the text itself was
\* accepted exactly once.
C16_EffectOnce ==
    \A c \in Callers :
        (trace[c] # <<>> /\ trace[c][1].k = "query") =>
            LET tr == trace[c]
                text == tr[1].t
            IN  /\ text.x = 0
                /\ \A i \in DOMAIN tr : tr[i].k = "send" => i > 1
                /\ Cardinality(Plainly(tr, "send", text)) <= 1
                /\ \A i \in DOMAIN tr :
                      tr[i].k = "send" => tr[i].t.q = text.q /\ (tr[i].t # text => tr[i].t.x >= 1)
                /\ (Over(c) /\ ~Has(tr, "refused") /\ ~Has(tr, "threw")) =>
                      Cardinality(Plainly(tr, "sent", text)) = 1

\* C16 witness: a call that went into two wrappers, one stacked on the other,
\* is over.
C16_Witness ==
    \E c \in Callers :
        /\ Over(c)
        /\ \E i, j \in DOMAIN trace[c] :
              /\ trace[c][i].k = "explain" /\ trace[c][j].k = "explain"
              /\ trace[c][i].w # trace[c][j].w
        /\ Cardinality({i \in DOMAIN trace[c] : trace[c][i].k = "send"}) >= 1

\* The wrapper invocation that starts at position i of the trace failed in
\* its estimation call: it reached its catch block without the EXPLAIN having
\* come back to it.
EstimationFailed(tr, i) ==
    /\ tr[i].k = "explain"
    /\ \E j \in (i + 1) .. Len(tr) :
          /\ tr[j] = Ev("queryError", tr[i].w, tr[i].t)
          /\ \A m \in (i + 1) .. (j - 1) : tr[m] # Ev("explainDone", tr[i].w, tr[i].t)

\* C17: a wrapper invocation whose estimation call failed makes no real call,
\* logs no executed query and records nothing, and restores the slot once;
\* when the call was a request's and the failure has reached its handler, the
\* slot holds what the wrapper in the slot had captured, and the request is
\* answered with 500.
C17_EstimationFails ==
    /\ \A c \in Callers : \A i \in DOMAIN trace[c] :
          EstimationFailed(trace[c], i) =>
              /\ Did(trace[c], i, i, "real") = {}
              /\ Did(trace[c], i, i, "executedQuery") = {}
              /\ Did(trace[c], i, i, "record") = {}
              /\ Cardinality(Did(trace[c], i, i, "restore")) = 1
              /\ \A m \in (i + 1) .. Len(trace[c]) :
                    ~(trace[c][m].k = "send" /\ trace[c][m].t = trace[c][i].t)
    /\ \A r \in Reqs :
          (pc[r] = "responded" /\ Over(r) /\ EstimationFailed(trace[r], 2)) =>
              /\ slot = cap[trace[r][2].w]
              /\ status[r] = 500
              /\ trace[r][1].t \notin qc[trace[r][2].w]

\* C17 witness: the database refused the EXPLAIN of a request's query, and
\* the failure has reached the handler.
C17_Witness ==
    \E r \in Reqs :
        /\ pc[r] = "responded" /\ Over(r) /\ EstimationFailed(trace[r], 2)
        /\ trace[r][4] = Ev("refused", 0, Explain(trace[r][1].t))

RECURSIVE Depth(_, _)
\* The number of wrappers between capability c and the original capability,
\* following what each wrapper captured; -1 when the original capability is
\* not reached within fuel steps.
Depth(c, fuel) ==
    IF c = Original THEN 0
    ELSE IF fuel = 0 THEN -1
    ELSE LET d == Depth(cap[c], fuel - 1) IN IF d < 0 THEN -1 ELSE d + 1

RECURSIVE Pow2(_)
Pow2(n) == IF n = 0 THEN 1 ELSE 2 * Pow2(n - 1)

\* C18: from the capability in the slot, and from every wrapper, the captured
\* capabilities lead to the original capability in at most as many steps as
\* there are wrappers, so no wrapper leads back to itself; the wrappers
\* waiting inside one call to pool.query are all different, and one call to
\* pool.query makes at most 2^n calls on the original capability when n
\* wrappers exist.
C18_ChainEnds ==
    /\ Depth(slot, NReq) >= 0
    /\ \A r \in Reqs : Depth(r, NReq) >= 1 /\ cap[r] # r
    /\ \A c \in Callers :
          /\ Len(stack[c]) <= NReq
          /\ \A i, j \in DOMAIN stack[c] : i # j => stack[c][i].w # stack[c][j].w
          /\ Cardinality({i \in DOMAIN trace[c] : trace[c][i].k = "send"}) <= Pow2(NReq)

\* C18 witness: a call to pool.query is waiting inside a wrapper that was
\* installed over another wrapper.
C18_Witness ==
    \E r \in Reqs :
        /\ pc[r] = "await" /\ Len(stack[r]) = 2
        /\ stack[r][1].w = r /\ stack[r][2].w = cap[r] /\ cap[r] # Original
        /\ Depth(r, NReq) = 2

\* The handler of request r has entered its catch block.
Failed(r) ==
    Answered(r) /\ (Has(trace[r], "handlerError") \/ Has(trace[r], "uncaught"))

\* C19: app_errors_total is the number of requests whose handler has entered
\* its catch block; a request answered with 200 is not among them, one
\* answered with 500 is, also when the wrapper has logged the failure before
\* the handler did.
C19_ErrorsCountFailures ==
    /\ errors = Cardinality({r \in Reqs : Failed(r)})
    /\ \A r \in Reqs :
          Answered(r) => /\ status[r] \in {200, 500}
                         /\ Failed(r) <=> status[r] = 500

\* C19 witness: one request failed in its query, which its wrapper and its
\* handler both logged, another was answered with 200, and the counter is 1.
C19_Witness ==
    \E r1, r2 \in Reqs :
        /\ Failed(r1) /\ Has(trace[r1], "queryError") /\ Has(trace[r1], "handlerError")
        /\ Answered(r2) /\ status[r2] = 200
        /\ errors = 1

OrdersFailed(r) == OrdersRun(r) /\ Answered(r) /\ status[r] = 500

\* C20: when an insert of /api/orders/generate fails, the handler answers at
\* once with 500 and { error: 'Failed to generate orders' }, having counted
\* and logged one error, and makes no further insert; it had made fewer than
\* 10 inserts, and their rows are in the table, which holds the rows of all
\* inserts that went well, whatever became of the requests that made them.
C20_NotAtomic ==
    /\ \A r \in Reqs :
          OrdersRun(r) =>
              /\ (Over(r) /\ Has(trace[r], "refused")) => OrdersFailed(r)
              /\ OrdersFailed(r) =>
                    /\ idx[r] \in 0 .. (OrdersPerRequest - 1)
                    /\ body[r] = Json("", "Failed to generate orders", "")
                    /\ Over(r) /\ Has(trace[r], "refused")
                    /\ Cardinality({i \in DOMAIN trace[r] : trace[r][i].k = "handlerError"}) = 1
                    /\ ordersRows >= idx[r]
    /\ ordersRows = Sum([r \in Reqs |-> IF OrdersRun(r) THEN idx[r] ELSE 0], Reqs)
    /\ errors >= Cardinality({r \in Reqs : OrdersFailed(r)})

\* C20 witness: the tenth insert of a request failed and the response has
\* finished; the nine rows are in the table.
C20_Witness ==
    \E r \in Reqs :
        /\ OrdersFailed(r) /\ pc[r] = "finished"
        /\ idx[r] = OrdersPerRequest - 1
        /\ ordersRows = OrdersPerRequest - 1
        /\ errors = 1

====
